---- MODULE Spec2Model ----
(***************************************************************************)
(* The edit protocol of satisfactory-accounting-app's NodeDisplay          *)
(* component (src/satisfactory-accounting-app/src/node_display.rs).        *)
(*                                                                         *)
(* The accounting tree is an immutable value.  Every node of it is shown   *)
(* by one NodeDisplay component, which knows its own node and its path.    *)
(* A component handles one message at a time (NodeDisplay::update) and     *)
(* answers with at most one callback to its parent: a replacement of       *)
(* itself, or a move request it could not resolve.  The callback becomes   *)
(* the parent's next message, and the replacement emitted by the root      *)
(* becomes the new tree.                                                   *)
(*                                                                         *)
(* Rust's Option is modelled as a sequence of length 0 or 1, Rust's 0-based*)
(* indices and paths are kept 0-based, a Vec is a (1-based) sequence and a *)
(* String is the sequence of its characters.                               *)
(***************************************************************************)
EXTENDS Naturals, Integers, Sequences, FiniteSets, TLC

\* Largest number of nodes below the root in the trees of SpecMove.
MaxNodes == 3

\* Largest number of components that show a drop indicator at a time.
MaxIndicators == 1

None == <<>>

Some(x) == <<x>>

IsSome(o) == o # <<>>

Unwrap(o) == o[1]

\* Rust's &s[..n]
SliceTo(s, n) == SubSeq(s, 1, n)

\* Rust's &s[n..]
SliceFrom(s, n) == SubSeq(s, n + 1, Len(s))

\* s without its last element
Front(s) == SubSeq(s, 1, Len(s) - 1)

Last(s) == s[Len(s)]

\* Vec::remove(idx)
VecRemove(s, idx) == SubSeq(s, 1, idx) \o SubSeq(s, idx + 2, Len(s))

\* Vec::insert(idx, x)
VecInsert(s, idx, x) == SubSeq(s, 1, idx) \o <<x>> \o SubSeq(s, idx + 1, Len(s))

\* char::is_whitespace, for the characters of the model
IsWhitespace(c) == c \in {" ", "\t"}

\* str::trim_start
RECURSIVE trim_start(_)
trim_start(s) ==
    IF s # <<>> /\ IsWhitespace(Head(s)) THEN trim_start(Tail(s)) ELSE s

\* str::trim_end
RECURSIVE trim_end(_)
trim_end(s) ==
    IF s # <<>> /\ IsWhitespace(Last(s)) THEN trim_end(Front(s)) ELSE s

\* str::trim
trim(s) == trim_end(trim_start(s))

(***************************************************************************)
(* Nodes.  The cached balance of a node is a pure function of the rest of  *)
(* the node, computed by an external collaborator; it is left out.         *)
(***************************************************************************)
Group(name, children) == [kind |-> "Group", name |-> name, children |-> children]

Building(building, settings) ==
    [kind |-> "Building", building |-> building, settings |-> settings]

ManufacturerSettings(recipe, clock_speed) ==
    [kind |-> "Manufacturer", recipe |-> recipe, clock_speed |-> clock_speed]

MinerSettings(resource, clock_speed) ==
    [kind |-> "Miner", resource |-> resource, clock_speed |-> clock_speed]

GeneratorSettings(fuel, clock_speed) ==
    [kind |-> "Generator", fuel |-> fuel, clock_speed |-> clock_speed]

PumpSettings(resource, clock_speed) ==
    [kind |-> "Pump", resource |-> resource, clock_speed |-> clock_speed]

IsGroup(node) == node.kind = "Group"

NumChildren(node) == IF IsGroup(node) THEN Len(node.children) ELSE 0

\* Whether path p addresses a node of the tree rooted at node.
RECURSIVE IsNodePath(_, _)
IsNodePath(node, p) ==
    IF p = <<>> THEN TRUE
    ELSE /\ IsGroup(node)
         /\ p[1] < Len(node.children)
         /\ IsNodePath(node.children[p[1] + 1], Tail(p))

\* The node that path p addresses (p is a node path).
RECURSIVE NodeAt(_, _)
NodeAt(node, p) ==
    IF p = <<>> THEN node ELSE NodeAt(node.children[p[1] + 1], Tail(p))

\* The paths of all nodes of the tree rooted at node, each prefixed by pre.
RECURSIVE NodePathsFrom(_, _)
NodePathsFrom(node, pre) ==
    {pre} \cup
    (IF IsGroup(node)
     THEN UNION {NodePathsFrom(node.children[i], Append(pre, i - 1)) :
                    i \in 1..Len(node.children)}
     ELSE {})

NodePaths(node) == NodePathsFrom(node, <<>>)

(***************************************************************************)
(* The Database: a read-only lookup from BuildingId to BuildingType.  It   *)
(* is an external collaborator; the model fixes a small one in which two   *)
(* manufacturers offer different recipes, two miners allow different       *)
(* resources and two generators burn different fuels.  "Unlisted" is a     *)
(* BuildingId that the Database does not know.                             *)
(***************************************************************************)
RecipeIds == {"r1", "r2", "r3"}

ItemIds == {"i1", "i2", "i3"}

Manufacturer(available_recipes) ==
    [kind_id |-> "Manufacturer", available_recipes |-> available_recipes]

Miner(allowed_resources) ==
    [kind_id |-> "Miner", allowed_resources |-> allowed_resources]

Generator(allowed_fuel) ==
    [kind_id |-> "Generator", allowed_fuel |-> allowed_fuel]

Pump(allowed_resources) ==
    [kind_id |-> "Pump", allowed_resources |-> allowed_resources]

BuildingType(kind) == [kind |-> kind]

KnownBuildingIds ==
    {"Constructor", "Assembler", "MinerMk1", "MinerMk2", "CoalGenerator",
     "FuelGenerator", "WaterPump"}

BuildingIds == KnownBuildingIds \cup {"Unlisted"}

Database ==
    [id \in KnownBuildingIds |->
        CASE id = "Constructor"   -> BuildingType(Manufacturer({"r1", "r2"}))
          [] id = "Assembler"     -> BuildingType(Manufacturer({"r2", "r3"}))
          [] id = "MinerMk1"      -> BuildingType(Miner({"i1", "i2"}))
          [] id = "MinerMk2"      -> BuildingType(Miner({"i2"}))
          [] id = "CoalGenerator" -> BuildingType(Generator({"i2"}))
          [] id = "FuelGenerator" -> BuildingType(Generator({"i3"}))
          [] id = "WaterPump"     -> BuildingType(Pump({"i1"}))]

\* db.get(id): Option<BuildingType>
db_get(id) == IF id \in DOMAIN Database THEN Some(Database[id]) ELSE None

ClockSpeeds == {50, 100}

(***************************************************************************)
(* The Settings Reconciler (BuildingSettings::clock_speed and              *)
(* BuildingSettings::build_new_settings of the accounting crate).          *)
(***************************************************************************)
clock_speed(settings) == settings.clock_speed

\* The default settings of a kind, with the given clock speed.
DefaultSettings(kind_id, speed) ==
    CASE kind_id = "Manufacturer" -> ManufacturerSettings(None, speed)
      [] kind_id = "Miner"        -> MinerSettings(None, speed)
      [] kind_id = "Generator"    -> GeneratorSettings(None, speed)
      [] kind_id = "Pump"         -> PumpSettings(None, speed)

build_new_settings(settings, new_kind) ==
    IF settings.kind = new_kind.kind_id
    THEN settings
    ELSE DefaultSettings(new_kind.kind_id, clock_speed(settings))

\* Building::build_node(db): Result<Node, _>.  The balance it computes is left
\* out of the model; whether it succeeds is decided outside the component, so
\* the caller passes the outcome in.
build_node(new_bldg, build_ok) == IF build_ok THEN Some(new_bldg) ELSE None

\* The selector of a settings value: its recipe, resource or fuel.
Selector(settings) ==
    CASE settings.kind = "Manufacturer" -> settings.recipe
      [] settings.kind = "Miner"        -> settings.resource
      [] settings.kind = "Generator"    -> settings.fuel
      [] settings.kind = "Pump"         -> settings.resource

(***************************************************************************)
(* The Move Engine (graph_manipulation::move_child): relocate the subtree  *)
(* at src_path to the position dest_path, both relative to group and both  *)
(* positions of the tree before the move.                                  *)
(***************************************************************************)
IsPrefix(p, q) == Len(p) <= Len(q) /\ SliceTo(q, Len(p)) = p

IsStrictPrefix(p, q) == Len(p) < Len(q) /\ SliceTo(q, Len(p)) = p

\* Whether p is a position a node can be inserted at: a child slot of a group.
IsInsertPath(node, p) ==
    /\ p # <<>>
    /\ IsNodePath(node, Front(p))
    /\ IsGroup(NodeAt(node, Front(p)))
    /\ Last(p) <= Len(NodeAt(node, Front(p)).children)

\* The tree without the node at p.
RECURSIVE RemoveAt(_, _)
RemoveAt(node, p) ==
    IF Len(p) = 1
    THEN [node EXCEPT !.children = VecRemove(@, p[1])]
    ELSE [node EXCEPT !.children[p[1] + 1] = RemoveAt(@, Tail(p))]

\* The tree with child inserted at position p.
RECURSIVE InsertAt(_, _, _)
InsertAt(node, p, child) ==
    IF Len(p) = 1
    THEN [node EXCEPT !.children = VecInsert(@, p[1], child)]
    ELSE [node EXCEPT !.children[p[1] + 1] = InsertAt(@, Tail(p), child)]

\* dest_path reinterpreted against the tree without the node at src_path: the
\* index of dest_path at the depth of the removal is one less when it comes
\* after the removed position in the same group.
ShiftedDest(src_path, dest_path) ==
    LET k == Len(src_path)
    IN  IF /\ k <= Len(dest_path)
           /\ SliceTo(dest_path, k - 1) = SliceTo(src_path, k - 1)
           /\ dest_path[k] > src_path[k]
        THEN [dest_path EXCEPT ![k] = @ - 1]
        ELSE dest_path

\* Option<Group>: None is the no-op.
move_child(group, src_path, dest_path) ==
    IF src_path = <<>> \/ dest_path = <<>> THEN None
    ELSE IF IsPrefix(src_path, dest_path) THEN None
    ELSE IF ~IsNodePath(group, src_path) \/ ~IsInsertPath(group, dest_path) THEN None
    ELSE LET dest == ShiftedDest(src_path, dest_path)
         IN  IF dest = src_path THEN None
             ELSE Some(InsertAt(RemoveAt(group, src_path), dest,
                                NodeAt(group, src_path)))

(***************************************************************************)
(* Messages (enum Msg) and the two callbacks to the parent (Props.replace  *)
(* and Props.move_node).                                                   *)
(***************************************************************************)
MsgReplaceChild(idx, replacement) ==
    [type |-> "ReplaceChild", idx |-> idx, replacement |-> replacement]

MsgDeleteChild(idx) == [type |-> "DeleteChild", idx |-> idx]

MsgCopyChild(idx) == [type |-> "CopyChild", idx |-> idx]

MsgAddChild(child) == [type |-> "AddChild", child |-> child]

MsgRename(name) == [type |-> "Rename", name |-> name]

MsgDragOver(insert_pos) == [type |-> "DragOver", insert_pos |-> insert_pos]

MsgDragLeave == [type |-> "DragLeave"]

MsgMoveNode(src_path, dest_path) ==
    [type |-> "MoveNode", src_path |-> src_path, dest_path |-> dest_path]

MsgChangeType(id) == [type |-> "ChangeType", id |-> id]

MsgChangeRecipe(id) == [type |-> "ChangeRecipe", id |-> id]

MsgChangeItem(id) == [type |-> "ChangeItem", id |-> id]

\* ctx.props().replace.emit((our_idx, node))
EmitReplace(our_idx, node) == [callback |-> "replace", idx |-> our_idx, node |-> node]

\* ctx.props().move_node.emit((src_path, dest_path))
EmitMoveNode(src_path, dest_path) ==
    [callback |-> "move_node", src_path |-> src_path, dest_path |-> dest_path]

\* What one call of update does: the callbacks it emits, in the order of the
\* calls of emit (no arm calls emit twice, so this is an Option), the value of
\* self.insert_pos after it, the bool it returns (whether to render again),
\* whether it panicked, and the arguments of its call of move_child (an Option).
Outcome(emit, insert_pos, render) ==
    [emit |-> emit, insert_pos |-> insert_pos, render |-> render,
     panic |-> FALSE, engine |-> None]

Panic(insert_pos) ==
    [emit |-> None, insert_pos |-> insert_pos, render |-> FALSE,
     panic |-> TRUE, engine |-> None]

\* ctx.props().path.last().copied().unwrap_or_default()
our_idx(path) == IF path = <<>> THEN 0 ELSE Last(path)

(***************************************************************************)
(* NodeDisplay::update, one operator per match arm.  node and path are the *)
(* component's props.                                                      *)
(***************************************************************************)
\* ReplaceChild that inserts the replacement before the child it replaces.
ReplaceChild_Inserts(node, path, idx, replacement) ==
    IF IsGroup(node)
    THEN IF idx < Len(node.children)
         THEN LET new_group == [node EXCEPT !.children = VecInsert(@, idx, replacement)]
              IN  Some(EmitReplace(our_idx(path), new_group))
         ELSE None
    ELSE None

\* ReplaceChild that replaces the first child, whatever idx is.
ReplaceChild_First(node, path, idx, replacement) ==
    IF IsGroup(node)
    THEN IF idx < Len(node.children)
         THEN LET new_group == [node EXCEPT !.children[1] = replacement]
              IN  Some(EmitReplace(our_idx(path), new_group))
         ELSE None
    ELSE None

ReplaceChild(node, path, idx, replacement) ==
    IF IsGroup(node)
    THEN IF idx < Len(node.children)
         THEN LET new_group == [node EXCEPT !.children[idx + 1] = replacement]
              IN  Some(EmitReplace(our_idx(path), new_group))
         ELSE None
    ELSE None

\* DeleteChild that removes the last child, whatever idx is.
DeleteChild_RemovesLast(node, path, idx) ==
    IF IsGroup(node)
    THEN IF idx < Len(node.children)
         THEN LET new_group == [node EXCEPT !.children = Front(@)]
              IN  Some(EmitReplace(our_idx(path), new_group))
         ELSE None
    ELSE None

DeleteChild(node, path, idx) ==
    IF IsGroup(node)
    THEN IF idx < Len(node.children)
         THEN LET new_group == [node EXCEPT !.children = VecRemove(@, idx)]
              IN  Some(EmitReplace(our_idx(path), new_group))
         ELSE None
    ELSE None

\* CopyChild that puts the copy after the last child.
CopyChild_AtEnd(node, path, idx) ==
    IF IsGroup(node)
    THEN IF idx < Len(node.children)
         THEN LET copied == node.children[idx + 1]
                  new_group == [node EXCEPT !.children = Append(@, copied)]
              IN  Some(EmitReplace(our_idx(path), new_group))
         ELSE None
    ELSE None

\* CopyChild that copies the last child when idx is past it.
CopyChild_Clamped(node, path, idx) ==
    IF IsGroup(node)
    THEN IF Len(node.children) > 0
         THEN LET i == IF idx < Len(node.children) THEN idx ELSE Len(node.children) - 1
                  copied == node.children[i + 1]
                  new_group == [node EXCEPT !.children = VecInsert(@, i + 1, copied)]
              IN  Some(EmitReplace(our_idx(path), new_group))
         ELSE None
    ELSE None

CopyChild(node, path, idx) ==
    IF IsGroup(node)
    THEN IF idx < Len(node.children)
         THEN LET copied == node.children[idx + 1]
                  new_group == [node EXCEPT !.children = VecInsert(@, idx + 1, copied)]
              IN  Some(EmitReplace(our_idx(path), new_group))
         ELSE None
    ELSE None

\* AddChild that puts the child before the first child.
AddChild_First(node, path, child) ==
    IF IsGroup(node)
    THEN LET new_group == [node EXCEPT !.children = <<child>> \o @]
         IN  Some(EmitReplace(our_idx(path), new_group))
    ELSE None

AddChild(node, path, child) ==
    IF IsGroup(node)
    THEN LET new_group == [node EXCEPT !.children = Append(@, child)]
         IN  Some(EmitReplace(our_idx(path), new_group))
    ELSE None

\* Rename that takes the name as it came.
Rename_NoTrim(node, path, name) ==
    IF IsGroup(node)
    THEN IF name # node.name
         THEN LET new_group == [node EXCEPT !.name = name]
              IN  Some(EmitReplace(our_idx(path), new_group))
         ELSE None
    ELSE None

Rename(node, path, name) ==
    IF IsGroup(node)
    THEN LET trimmed == trim(name)
         IN  IF trimmed # node.name
             THEN LET new_group == [node EXCEPT !.name = trimmed]
                  IN  Some(EmitReplace(our_idx(path), new_group))
             ELSE None
    ELSE None

DragOver(new_insert_pos) == Outcome(None, Some(new_insert_pos), TRUE)

DragLeave == Outcome(None, None, TRUE)

\* IsCommonAncestor without the comparison with src_path.
IsCommonAncestor_DestOnly(path, src_path, dest_path) ==
    LET prefix_len == Len(path)
    IN  /\ prefix_len < Len(src_path)
        /\ path = SliceTo(dest_path, prefix_len)

\* The condition of the MoveNode arm, once its operands are known to be in
\* range: this node is the common ancestor of both paths.
IsCommonAncestor(path, src_path, dest_path) ==
    LET prefix_len == Len(path)
    IN  /\ prefix_len < Len(src_path)
        /\ path = SliceTo(src_path, prefix_len)
        /\ path = SliceTo(dest_path, prefix_len)

\* RelativePaths that leaves src_path as it came.
RelativePaths_SrcNotStripped(prefix_len, src_path, dest_path) ==
    [src_path |-> src_path, dest_path |-> SliceFrom(dest_path, prefix_len)]

\* RelativePaths that leaves dest_path as it came.
RelativePaths_DestNotStripped(prefix_len, src_path, dest_path) ==
    [src_path |-> SliceFrom(src_path, prefix_len), dest_path |-> dest_path]

\* The paths handed to move_child: both without this node's path.
RelativePaths(prefix_len, src_path, dest_path) ==
    [src_path |-> SliceFrom(src_path, prefix_len),
     dest_path |-> SliceFrom(dest_path, prefix_len)]

\* ForwardedRequest that hands on the paths relative to this node.
ForwardedRequest_Stripped(prefix_len, src_path, dest_path) ==
    EmitMoveNode(SliceFrom(src_path, prefix_len), SliceFrom(dest_path, prefix_len))

\* The request handed to the parent when this node is no common ancestor.
ForwardedRequest(prefix_len, src_path, dest_path) ==
    EmitMoveNode(src_path, dest_path)

\* EmitMoved that emits a default group when there is no moved group.
EmitMoved_OrDefault(path, moved) ==
    Some(EmitReplace(our_idx(path),
                     IF IsSome(moved) THEN Unwrap(moved) ELSE Group(<<>>, <<>>)))

\* The callback of the common ancestor: the moved group, if there is one.
EmitMoved(path, moved) ==
    IF IsSome(moved) THEN Some(EmitReplace(our_idx(path), Unwrap(moved))) ELSE None

\* MoveNode that leaves self.insert_pos as it is.
MoveNode_KeepsInsertPos(node, path, insert_pos, src_path, dest_path, debug_assertions) ==
    LET prefix_len == Len(path)
        \* dest_path[..prefix_len] is evaluated when the two conditions before it hold
        slices_dest == /\ prefix_len < Len(src_path)
                       /\ path = SliceTo(src_path, prefix_len)
        rel == RelativePaths(prefix_len, src_path, dest_path)
        emit == IF IsCommonAncestor(path, src_path, dest_path)
                THEN IF IsGroup(node)
                     THEN EmitMoved(path, move_child(node, rel.src_path, rel.dest_path))
                     ELSE None
                ELSE Some(ForwardedRequest(prefix_len, src_path, dest_path))
        engine == IF IsCommonAncestor(path, src_path, dest_path) /\ IsGroup(node)
                  THEN Some(rel) ELSE None
    IN  IF debug_assertions /\ ~(prefix_len < Len(dest_path)) THEN Panic(insert_pos)
        ELSE IF slices_dest /\ prefix_len > Len(dest_path) THEN Panic(insert_pos)
        ELSE [emit |-> emit, insert_pos |-> insert_pos, render |-> IsSome(insert_pos),
              panic |-> FALSE, engine |-> engine]

\* MoveNode that asks the parent to do the move also when this node is the
\* common ancestor.
MoveNode_AlsoForwards(node, path, insert_pos, src_path, dest_path, debug_assertions) ==
    LET prefix_len == Len(path)
        \* dest_path[..prefix_len] is evaluated when the two conditions before it hold
        slices_dest == /\ prefix_len < Len(src_path)
                       /\ path = SliceTo(src_path, prefix_len)
        rel == RelativePaths(prefix_len, src_path, dest_path)
        emit == IF IsCommonAncestor(path, src_path, dest_path)
                THEN (IF IsGroup(node)
                      THEN EmitMoved(path, move_child(node, rel.src_path, rel.dest_path))
                      ELSE None)
                     \o Some(ForwardedRequest(prefix_len, src_path, dest_path))
                ELSE Some(ForwardedRequest(prefix_len, src_path, dest_path))
        engine == IF IsCommonAncestor(path, src_path, dest_path) /\ IsGroup(node)
                  THEN Some(rel) ELSE None
    IN  IF debug_assertions /\ ~(prefix_len < Len(dest_path)) THEN Panic(insert_pos)
        ELSE IF slices_dest /\ prefix_len > Len(dest_path) THEN Panic(insert_pos)
        ELSE [emit |-> emit, insert_pos |-> None, render |-> IsSome(insert_pos),
              panic |-> FALSE, engine |-> engine]

MoveNode(node, path, insert_pos, src_path, dest_path, debug_assertions) ==
    LET prefix_len == Len(path)
        \* dest_path[..prefix_len] is evaluated when the two conditions before it hold
        slices_dest == /\ prefix_len < Len(src_path)
                       /\ path = SliceTo(src_path, prefix_len)
        rel == RelativePaths(prefix_len, src_path, dest_path)
        emit == IF IsCommonAncestor(path, src_path, dest_path)
                THEN IF IsGroup(node)
                     THEN EmitMoved(path, move_child(node, rel.src_path, rel.dest_path))
                     ELSE None
                ELSE Some(ForwardedRequest(prefix_len, src_path, dest_path))
        engine == IF IsCommonAncestor(path, src_path, dest_path) /\ IsGroup(node)
                  THEN Some(rel) ELSE None
    IN  IF debug_assertions /\ ~(prefix_len < Len(dest_path)) THEN Panic(insert_pos)
        ELSE IF slices_dest /\ prefix_len > Len(dest_path) THEN Panic(insert_pos)
        ELSE [emit |-> emit, insert_pos |-> None, render |-> IsSome(insert_pos),
              panic |-> FALSE, engine |-> engine]

\* ChangeType that sets the identity and leaves the settings as they are.
ChangeType_KeepsSettings(node, path, id, build_ok) ==
    IF node.kind = "Building"
    THEN IF node.building # Some(id)
         THEN LET new_bldg == [node EXCEPT !.building = Some(id)]
                  built == build_node(new_bldg, build_ok)
              IN  IF IsSome(built)
                  THEN Some(EmitReplace(our_idx(path), Unwrap(built)))
                  ELSE None
         ELSE None
    ELSE None

\* ChangeType that reconciles the default settings of the old kind instead of
\* the old settings.
ChangeType_FromDefault(node, path, id, build_ok) ==
    IF node.kind = "Building"
    THEN IF node.building # Some(id)
         THEN LET with_id == [node EXCEPT !.building = Some(id)]
                  new_bldg ==
                      IF IsSome(db_get(id))
                      THEN [with_id EXCEPT !.settings =
                               build_new_settings(DefaultSettings(@.kind, 100),
                                                  Unwrap(db_get(id)).kind)]
                      ELSE with_id
                  built == build_node(new_bldg, build_ok)
              IN  IF IsSome(built)
                  THEN Some(EmitReplace(our_idx(path), Unwrap(built)))
                  ELSE None
         ELSE None
    ELSE None

\* ChangeType without the comparison of the new identity with the current one.
ChangeType_NoIdentityCheck(node, path, id, build_ok) ==
    IF node.kind = "Building"
    THEN LET with_id == [node EXCEPT !.building = Some(id)]
             new_bldg ==
                 IF IsSome(db_get(id))
                 THEN [with_id EXCEPT !.settings =
                          build_new_settings(@, Unwrap(db_get(id)).kind)]
                 ELSE with_id
             built == build_node(new_bldg, build_ok)
         IN  IF IsSome(built)
             THEN Some(EmitReplace(our_idx(path), Unwrap(built)))
             ELSE None
    ELSE None

ChangeType(node, path, id, build_ok) ==
    IF node.kind = "Building"
    THEN IF node.building # Some(id)
         THEN LET with_id == [node EXCEPT !.building = Some(id)]
                  new_bldg ==
                      IF IsSome(db_get(id))
                      THEN [with_id EXCEPT !.settings =
                               build_new_settings(@, Unwrap(db_get(id)).kind)]
                      ELSE with_id
                  built == build_node(new_bldg, build_ok)
              IN  IF IsSome(built)
                  THEN Some(EmitReplace(our_idx(path), Unwrap(built)))
                  ELSE None
         ELSE None
    ELSE None

\* ChangeRecipe without the test that the building offers the recipe.
ChangeRecipe_AnyRecipe(node, path, id, build_ok) ==
    IF node.kind # "Building" THEN None
    ELSE IF ~IsSome(node.building) THEN None
    ELSE IF ~IsSome(db_get(Unwrap(node.building))) THEN None
    ELSE LET kind == Unwrap(db_get(Unwrap(node.building))).kind
         IN  IF kind.kind_id # "Manufacturer" THEN None
             ELSE LET base == IF node.settings.kind = "Manufacturer"
                              THEN node.settings
                              ELSE ManufacturerSettings(None, clock_speed(node.settings))
                      settings == [base EXCEPT !.recipe = Some(id)]
                      new_bldg == [node EXCEPT !.settings = settings]
                      built == build_node(new_bldg, build_ok)
                  IN  IF IsSome(built)
                      THEN Some(EmitReplace(our_idx(path), Unwrap(built)))
                      ELSE None

\* ChangeRecipe that takes the clock speed 100 when it has to make new
\* Manufacturer settings.
ChangeRecipe_DefaultClock(node, path, id, build_ok) ==
    IF node.kind # "Building" THEN None
    ELSE IF ~IsSome(node.building) THEN None
    ELSE IF ~IsSome(db_get(Unwrap(node.building))) THEN None
    ELSE LET kind == Unwrap(db_get(Unwrap(node.building))).kind
         IN  IF kind.kind_id # "Manufacturer" THEN None
             ELSE IF id \notin kind.available_recipes THEN None
             ELSE LET base == IF node.settings.kind = "Manufacturer"
                              THEN node.settings
                              ELSE ManufacturerSettings(None, 100)
                      settings == [base EXCEPT !.recipe = Some(id)]
                      new_bldg == [node EXCEPT !.settings = settings]
                      built == build_node(new_bldg, build_ok)
                  IN  IF IsSome(built)
                      THEN Some(EmitReplace(our_idx(path), Unwrap(built)))
                      ELSE None

ChangeRecipe(node, path, id, build_ok) ==
    IF node.kind # "Building" THEN None
    ELSE IF ~IsSome(node.building) THEN None
    ELSE IF ~IsSome(db_get(Unwrap(node.building))) THEN None
    ELSE LET kind == Unwrap(db_get(Unwrap(node.building))).kind
         IN  IF kind.kind_id # "Manufacturer" THEN None
             ELSE IF id \notin kind.available_recipes THEN None
             ELSE LET base == IF node.settings.kind = "Manufacturer"
                              THEN node.settings
                              ELSE ManufacturerSettings(None, clock_speed(node.settings))
                      settings == [base EXCEPT !.recipe = Some(id)]
                      new_bldg == [node EXCEPT !.settings = settings]
                      built == build_node(new_bldg, build_ok)
                  IN  IF IsSome(built)
                      THEN Some(EmitReplace(our_idx(path), Unwrap(built)))
                      ELSE None

\* The first match of the ChangeItem arm: the kind the item is valid for.
ChangeItemKind(node, id) ==
    IF ~IsSome(node.building) THEN None
    ELSE IF ~IsSome(db_get(Unwrap(node.building))) THEN None
    ELSE LET kind == Unwrap(db_get(Unwrap(node.building))).kind
         IN  CASE kind.kind_id = "Miner" ->
                    IF id \in kind.allowed_resources THEN Some("Miner") ELSE None
               [] kind.kind_id = "Generator" ->
                    IF id \in kind.allowed_fuel THEN Some("Generator") ELSE None
               [] kind.kind_id = "Pump" ->
                    IF id \in kind.allowed_resources THEN Some("Pump") ELSE None
               [] OTHER -> None

\* ChangeItemSettings that takes the clock speed 100 when it has to make new
\* settings.
ChangeItemSettings_DefaultClock(kind_id, settings, id) ==
    CASE kind_id = "Miner" ->
            IF settings.kind = "Miner"
            THEN [settings EXCEPT !.resource = Some(id)]
            ELSE MinerSettings(Some(id), 100)
      [] kind_id = "Generator" ->
            IF settings.kind = "Generator"
            THEN [settings EXCEPT !.fuel = Some(id)]
            ELSE GeneratorSettings(Some(id), 100)
      [] kind_id = "Pump" ->
            IF settings.kind = "Pump"
            THEN [settings EXCEPT !.resource = Some(id)]
            ELSE PumpSettings(Some(id), 100)

\* The second match of the ChangeItem arm: the settings with the item set.
ChangeItemSettings(kind_id, settings, id) ==
    CASE kind_id = "Miner" ->
            IF settings.kind = "Miner"
            THEN [settings EXCEPT !.resource = Some(id)]
            ELSE MinerSettings(Some(id), clock_speed(settings))
      [] kind_id = "Generator" ->
            IF settings.kind = "Generator"
            THEN [settings EXCEPT !.fuel = Some(id)]
            ELSE GeneratorSettings(Some(id), clock_speed(settings))
      [] kind_id = "Pump" ->
            IF settings.kind = "Pump"
            THEN [settings EXCEPT !.resource = Some(id)]
            ELSE PumpSettings(Some(id), clock_speed(settings))

ChangeItem(node, path, id, build_ok) ==
    IF node.kind # "Building" THEN None
    ELSE LET kind_id == ChangeItemKind(node, id)
         IN  IF ~IsSome(kind_id) THEN None
             ELSE LET settings == ChangeItemSettings(Unwrap(kind_id), node.settings, id)
                      new_bldg == [node EXCEPT !.settings = settings]
                      built == build_node(new_bldg, build_ok)
                  IN  IF IsSome(built)
                      THEN Some(EmitReplace(our_idx(path), Unwrap(built)))
                      ELSE None

update(node, path, insert_pos, msg, debug_assertions, build_ok) ==
    CASE msg.type = "ReplaceChild" ->
            Outcome(ReplaceChild(node, path, msg.idx, msg.replacement), insert_pos, FALSE)
      [] msg.type = "DeleteChild" ->
            Outcome(DeleteChild(node, path, msg.idx), insert_pos, FALSE)
      [] msg.type = "CopyChild" ->
            Outcome(CopyChild(node, path, msg.idx), insert_pos, FALSE)
      [] msg.type = "AddChild" ->
            Outcome(AddChild(node, path, msg.child), insert_pos, FALSE)
      [] msg.type = "Rename" ->
            Outcome(Rename(node, path, msg.name), insert_pos, FALSE)
      [] msg.type = "DragOver" -> DragOver(msg.insert_pos)
      [] msg.type = "DragLeave" -> DragLeave
      [] msg.type = "MoveNode" ->
            MoveNode(node, path, insert_pos, msg.src_path, msg.dest_path, debug_assertions)
      [] msg.type = "ChangeType" ->
            Outcome(ChangeType(node, path, msg.id, build_ok), insert_pos, FALSE)
      [] msg.type = "ChangeRecipe" ->
            Outcome(ChangeRecipe(node, path, msg.id, build_ok), insert_pos, FALSE)
      [] msg.type = "ChangeItem" ->
            Outcome(ChangeItem(node, path, msg.id, build_ok), insert_pos, FALSE)

(***************************************************************************)
(* The state.                                                              *)
(*   tree        the current tree (the root node, held by the App)         *)
(*   insert_pos  NodeDisplay.insert_pos of the component at each path: a   *)
(*               function from the paths where it is Some to its value     *)
(*   pending     the message on its way to a component (an Option): the    *)
(*               user's request, or the callback a child has emitted       *)
(*   panicked    a handler has panicked; the application has stopped       *)
(* and, to state properties of one edit,                                   *)
(*   pre         the tree when the user's request was made                 *)
(*   req         the user's request: the component it went to, the message *)
(*   log         what each update call made for the request did, in order, *)
(*               with self.insert_pos of the component before the call     *)
(***************************************************************************)
VARIABLES tree, insert_pos, pending, panicked, pre, req, log

vars == <<tree, insert_pos, pending, panicked, pre, req, log>>

InsertPosOf(path) ==
    IF path \in DOMAIN insert_pos THEN Some(insert_pos[path]) ELSE None

SetInsertPos(path, value) ==
    IF IsSome(value)
    THEN [p \in DOMAIN insert_pos \cup {path} |->
             IF p = path THEN Unwrap(value) ELSE insert_pos[p]]
    ELSE [p \in DOMAIN insert_pos \ {path} |-> insert_pos[p]]

NoRequest == [at |-> <<>>, msg |-> [type |-> "None"]]

\* The message a group's callback makes of what its child emitted.
ParentMsg(emit) ==
    IF emit.callback = "replace"
    THEN MsgReplaceChild(emit.idx, emit.node)
    ELSE MsgMoveNode(emit.src_path, emit.dest_path)

\* The child positions of the groups of the tree: the path of every node but
\* the root, and for every group the position past its last child.
SlotPaths(root) ==
    UNION {{Append(p, i) : i \in 0..NumChildren(NodeAt(root, p))} :
              p \in {q \in NodePaths(root) : IsGroup(NodeAt(root, q))}}

\* The user sends msg to the component at path at.
Request(at, msg) ==
    /\ ~panicked
    /\ pending = None
    /\ at \in NodePaths(tree)
    /\ pending' = Some([at |-> at, msg |-> msg])
    /\ pre' = tree
    /\ req' = [at |-> at, msg |-> msg]
    /\ log' = <<>>
    /\ UNCHANGED <<tree, insert_pos, panicked>>

\* A node is dropped.  src_path is the position the drag started at (the path
\* of a node, or a position that no longer holds one), dest_path the child
\* position of a group that it ended at; a group above that position gets the
\* request.
StartMove ==
    \E src_path \in SlotPaths(tree), dest_path \in SlotPaths(tree) :
        \E at \in NodePaths(tree) :
            /\ IsStrictPrefix(at, dest_path)
            /\ Request(at, MsgMoveNode(src_path, dest_path))

StartChangeType ==
    \E at \in NodePaths(tree), id \in BuildingIds : Request(at, MsgChangeType(id))

StartChangeRecipe ==
    \E at \in NodePaths(tree), id \in RecipeIds : Request(at, MsgChangeRecipe(id))

StartChangeItem ==
    \E at \in NodePaths(tree), id \in ItemIds : Request(at, MsgChangeItem(id))

\* The component that pending addresses handles it.  What it emits goes to its
\* parent; what the root emits goes to the App, which installs a replacement as
\* the new tree.
Deliver ==
    /\ ~panicked
    /\ IsSome(pending)
    /\ LET at == Unwrap(pending).at
           msg == Unwrap(pending).msg
       IN  \E debug_assertions \in BOOLEAN, build_ok \in BOOLEAN :
             LET out == update(NodeAt(tree, at), at, InsertPosOf(at), msg,
                               debug_assertions, build_ok)
             IN  /\ panicked' = out.panic
                 /\ insert_pos' = SetInsertPos(at, out.insert_pos)
                 /\ log' = Append(log, [at |-> at, msg |-> msg, out |-> out,
                                         insert_pos |-> InsertPosOf(at)])
                 /\ IF ~IsSome(out.emit)
                    THEN tree' = tree /\ pending' = None
                    ELSE IF at = <<>>
                    THEN /\ tree' = IF Unwrap(out.emit).callback = "replace"
                                    THEN Unwrap(out.emit).node ELSE tree
                         /\ pending' = None
                    ELSE /\ tree' = tree
                         /\ pending' = Some([at |-> Front(at),
                                             msg |-> ParentMsg(Unwrap(out.emit))])
                 /\ UNCHANGED <<pre, req>>

(***************************************************************************)
(* SpecMove: moves on every tree of at most MaxNodes nodes below the root. *)
(* The nodes are pairwise different (groups by name, buildings by content),*)
(* so a node can be told from every other one after a move.                *)
(***************************************************************************)
NodeLabels == <<"A", "x", "B", "y", "C", "z">>

IsGroupLabel(l) == l \in {"A", "B", "C"}

Leaf(l) ==
    CASE l = "x" -> Building(Some("Constructor"), ManufacturerSettings(Some("r1"), 100))
      [] l = "y" -> Building(Some("MinerMk1"), MinerSettings(None, 50))
      [] l = "z" -> Building(None, GeneratorSettings(None, 100))

\* The forests that use every label of S once, and the trees that do.
RECURSIVE Forests(_), TreesOn(_)
Forests(S) ==
    IF S = {} THEN {<<>>}
    ELSE UNION {{<<t>> \o rest : t \in TreesOn(S1), rest \in Forests(S \ S1)} :
                   S1 \in (SUBSET S) \ {{}}}

TreesOn(S) ==
    UNION {IF IsGroupLabel(l) THEN {Group(<<l>>, f) : f \in Forests(S \ {l})}
           ELSE IF S = {l} THEN {Leaf(l)} ELSE {} : l \in S}

RootName == <<"R", "o", "o", "t">>

MoveTrees ==
    {Group(RootName, f) :
        f \in UNION {Forests(S) : S \in SUBSET {NodeLabels[i] : i \in 1..MaxNodes}}}

InitOn(trees) ==
    /\ tree \in trees
    /\ insert_pos = <<>>
    /\ pending = None
    /\ panicked = FALSE
    /\ pre = tree
    /\ req = NoRequest
    /\ log = <<>>

InitMove == InitOn(MoveTrees)

NextMove == StartMove \/ Deliver

SpecMove == InitMove /\ [][NextMove]_vars

(***************************************************************************)
(* SpecBuild: identity edits of one building, the only child of the root.  *)
(* It starts well-formed: a building the Database knows has settings of    *)
(* its kind and a selector that is unset or allowed for it, a building     *)
(* without identity has default settings.                                  *)
(***************************************************************************)
\* The recipes, resources or fuels a kind allows.
Allowed(kind) ==
    CASE kind.kind_id = "Manufacturer" -> kind.available_recipes
      [] kind.kind_id = "Miner"        -> kind.allowed_resources
      [] kind.kind_id = "Generator"    -> kind.allowed_fuel
      [] kind.kind_id = "Pump"         -> kind.allowed_resources

KindIds == {"Manufacturer", "Miner", "Generator", "Pump"}

WithSelector(settings, selector) ==
    CASE settings.kind = "Manufacturer" -> [settings EXCEPT !.recipe = selector]
      [] settings.kind = "Miner"        -> [settings EXCEPT !.resource = selector]
      [] settings.kind = "Generator"    -> [settings EXCEPT !.fuel = selector]
      [] settings.kind = "Pump"         -> [settings EXCEPT !.resource = selector]

WellFormedBuildings ==
    UNION {{Building(Some(id),
                     WithSelector(DefaultSettings(Database[id].kind.kind_id, speed), sel)) :
               speed \in ClockSpeeds,
               sel \in {None} \cup {Some(x) : x \in Allowed(Database[id].kind)}} :
              id \in KnownBuildingIds}
    \cup {Building(None, DefaultSettings(k, speed)) : k \in KindIds, speed \in ClockSpeeds}

BuildTrees == {Group(RootName, <<b>>) : b \in WellFormedBuildings}

InitBuild == InitOn(BuildTrees)

NextBuild == StartChangeType \/ StartChangeRecipe \/ StartChangeItem \/ Deliver

SpecBuild == InitBuild /\ [][NextBuild]_vars

(***************************************************************************)
(* SpecSelect: recipe and item edits of one building, the only child of    *)
(* the root.  The building is any value of the Building type: its identity *)
(* may be unset or unknown to the Database and its settings may be of      *)
(* another kind than its identity, with any selector, as in a tree that    *)
(* was stored under another version of the Database.  The ChangeRecipe and *)
(* ChangeItem arms have a branch for such settings ("Had to change         *)
(* building settings kind").                                               *)
(***************************************************************************)
Selectors(kind_id) == IF kind_id = "Manufacturer" THEN RecipeIds ELSE ItemIds

AnySettings ==
    {WithSelector(DefaultSettings(k, speed), sel) :
        <<k, speed, sel>> \in
            UNION {{<<k, speed, sel>> :
                       speed \in ClockSpeeds,
                       sel \in {None} \cup {Some(x) : x \in Selectors(k)}} :
                      k \in KindIds}}

AnyBuildings ==
    {Building(b, s) :
        b \in {None} \cup {Some(id) : id \in BuildingIds}, s \in AnySettings}

SelectTrees == {Group(RootName, <<b>>) : b \in AnyBuildings}

InitSelect == InitOn(SelectTrees)

NextSelect == StartChangeRecipe \/ StartChangeItem \/ Deliver

SpecSelect == InitSelect /\ [][NextSelect]_vars

(***************************************************************************)
(* SpecEdit: one edit of any kind, sent to any node of any of the trees of *)
(* SpecMove.  A component keeps nothing of an edit but the tree it leaves, *)
(* so the edits of a longer session are the first edits of the behaviours  *)
(* that start from the trees in between.  The messages are all values of   *)
(* Msg that are not about a drag in progress: update has an arm for every  *)
(* message at every node, also for those that the views never send (an     *)
(* index past the last child, a group message to a building).              *)
(***************************************************************************)
\* No edit has been asked for yet.
NoEditYet == req = NoRequest

\* The indices of the children of the node at path at, and the first two
\* indices past them.
Indices(at) == 0..(NumChildren(NodeAt(tree, at)) + 1)

\* The nodes that are added to a group or put in the place of a child.
NewNodes ==
    {Group(<<"N">>, <<>>), Building(None, ManufacturerSettings(None, 100))}

Padding == {<<>>, <<" ">>, <<"\t", " ">>}

\* The names a user types for the node: its own name (of a group), no name, a
\* name of one word and a name with whitespace inside, each with and without
\* whitespace before and after it.
TypedNames(node) ==
    {before \o name \o after :
        before \in Padding, after \in Padding,
        name \in {IF IsGroup(node) THEN node.name ELSE <<>>,
                  <<>>, <<"a">>, <<"a", " ", "b">>}}

EditReplaceChild ==
    /\ NoEditYet
    /\ \E at \in NodePaths(tree) :
          \E idx \in Indices(at), replacement \in NewNodes :
              Request(at, MsgReplaceChild(idx, replacement))

EditDeleteChild ==
    /\ NoEditYet
    /\ \E at \in NodePaths(tree) :
          \E idx \in Indices(at) : Request(at, MsgDeleteChild(idx))

EditCopyChild ==
    /\ NoEditYet
    /\ \E at \in NodePaths(tree) :
          \E idx \in Indices(at) : Request(at, MsgCopyChild(idx))

EditAddChild ==
    /\ NoEditYet
    /\ \E at \in NodePaths(tree), child \in NewNodes :
          Request(at, MsgAddChild(child))

EditRename ==
    /\ NoEditYet
    /\ \E at \in NodePaths(tree) :
          \E name \in TypedNames(NodeAt(tree, at)) : Request(at, MsgRename(name))

EditMove == NoEditYet /\ StartMove

EditChangeType == NoEditYet /\ StartChangeType

EditChangeRecipe == NoEditYet /\ StartChangeRecipe

EditChangeItem == NoEditYet /\ StartChangeItem

InitEdit == InitOn(MoveTrees)

NextEdit ==
    \/ EditReplaceChild
    \/ EditDeleteChild
    \/ EditCopyChild
    \/ EditAddChild
    \/ EditRename
    \/ EditMove
    \/ EditChangeType
    \/ EditChangeRecipe
    \/ EditChangeItem
    \/ Deliver

SpecEdit == InitEdit /\ [][NextEdit]_vars

(***************************************************************************)
(* SpecDrag: a drag over the groups of any of the trees of SpecMove, with  *)
(* DragOver and DragLeave messages to the groups it passes, ended by a     *)
(* drop (a MoveNode message) or by a message of another type to any node.  *)
(* The order in which a group is left and the next one is entered is up to *)
(* the browser, so a group may be entered before the last one is left, as  *)
(* long as at most MaxIndicators components have their insert_pos set.     *)
(***************************************************************************)
\* No message but DragOver and DragLeave has been sent yet.
Dragging == req.msg.type \in {"None", "DragOver", "DragLeave"}

GroupPaths(root) == {p \in NodePaths(root) : IsGroup(NodeAt(root, p))}

\* One message of every type that is not about a drag.
OtherMsgs ==
    {MsgReplaceChild(0, Group(<<"N">>, <<>>)), MsgDeleteChild(0), MsgCopyChild(0),
     MsgAddChild(Group(<<"N">>, <<>>)), MsgRename(<<"a">>),
     MsgChangeType("Assembler"), MsgChangeRecipe("r2"), MsgChangeItem("i1")}

SendDragOver ==
    /\ Dragging
    /\ \E at \in GroupPaths(tree) :
          \E pos \in 0..NumChildren(NodeAt(tree, at)) :
              /\ Cardinality(DOMAIN insert_pos \ {at}) < MaxIndicators
              /\ Request(at, MsgDragOver(pos))

SendDragLeave ==
    /\ Dragging
    /\ \E at \in GroupPaths(tree) : Request(at, MsgDragLeave)

\* The dragged node is dropped: the group that holds the position it is
\* dropped at gets the MoveNode message.
Drop ==
    /\ Dragging
    /\ \E src_path \in NodePaths(tree) \ {<<>>}, dest_path \in SlotPaths(tree) :
          Request(Front(dest_path), MsgMoveNode(src_path, dest_path))

SendOther ==
    /\ Dragging
    /\ \E at \in NodePaths(tree), msg \in OtherMsgs : Request(at, msg)

InitDrag == InitOn(MoveTrees)

NextDrag == SendDragOver \/ SendDragLeave \/ Drop \/ SendOther \/ Deliver

SpecDrag == InitDrag /\ [][NextDrag]_vars

(***************************************************************************)
(* Properties of a move (SpecMove).                                        *)
(***************************************************************************)
IsMoveReq == req.msg.type = "MoveNode"

ReqSrc == req.msg.src_path

ReqDest == req.msg.dest_path

\* The request went first to the group that holds the destination position.
SentToDestGroup == IsMoveReq /\ req.at = Front(ReqDest) /\ IsGroup(NodeAt(pre, req.at))

MovePending == IsSome(pending) /\ Unwrap(pending).msg.type = "MoveNode"

\* The calls of update for a MoveNode message
MoveCalls == {i \in DOMAIN log : log[i].msg.type = "MoveNode"}

Forwards(i) ==
    IsSome(log[i].out.emit) /\ Unwrap(log[i].out.emit).callback = "move_node"

EmitsReplace(i) ==
    IsSome(log[i].out.emit) /\ Unwrap(log[i].out.emit).callback = "replace"

Delegates(i) == IsSome(log[i].out.engine)

\* The request is settled: no message is on its way.
Settled == pending = None /\ log # <<>> /\ ~panicked

\* The longest path that is a strict prefix of both p and q (both non-empty).
LowestCommonAncestor(p, q) ==
    CHOOSE a \in {SliceTo(p, n) : n \in 0..(Len(p) - 1)} :
        /\ IsStrictPrefix(a, q)
        /\ \A n \in 0..(Len(p) - 1) :
              IsStrictPrefix(SliceTo(p, n), q) => n <= Len(a)

\* C1: a move request with non-empty paths that goes first to the group holding
\* the destination position and then from parent to parent is handed to the
\* Move Engine by exactly one node, the lowest common ancestor of the two
\* paths: no node below it and no node above it hands it on to the engine, no
\* node above it ever gets the request, and the root never forwards it.
C1_DelegatedAtLowestCommonAncestor ==
    SentToDestGroup =>
        LET lca == LowestCommonAncestor(ReqSrc, ReqDest)
        IN  /\ \A i \in MoveCalls :
                  /\ ~log[i].out.panic
                  /\ Len(log[i].at) >= Len(lca)
                  /\ Delegates(i) <=> log[i].at = lca
                  /\ Forwards(i) <=> ~Delegates(i)
                  /\ Forwards(i) => log[i].at # <<>>
            /\ Cardinality({i \in MoveCalls : Delegates(i)}) <= 1
            /\ ~MovePending => Cardinality({i \in MoveCalls : Delegates(i)}) = 1

\* A request that a group below the root forwarded and that its parent, below
\* the root too, handed to the Move Engine.
C1_Witness ==
    /\ SentToDestGroup
    /\ Len(log) >= 2
    /\ Forwards(1)
    /\ Delegates(2)
    /\ log[2].at # <<>>
    /\ Settled

\* C2: a node that handles a MoveNode message and whose path is not a strict
\* prefix of both paths emits no replacement, does not call the Move Engine and
\* forwards the two paths to its parent as it got them; a node whose path is a
\* strict prefix of both forwards nothing and calls the Move Engine with both
\* paths shortened by the length of its own path.
C2_ForwardUnchangedOrDelegateStripped ==
    \A i \in MoveCalls :
        LET at == log[i].at
            src_path == log[i].msg.src_path
            dest_path == log[i].msg.dest_path
        IN  IF IsStrictPrefix(at, src_path) /\ IsStrictPrefix(at, dest_path)
            THEN /\ ~Forwards(i)
                 /\ log[i].out.engine =
                       Some([src_path |-> SubSeq(src_path, Len(at) + 1, Len(src_path)),
                             dest_path |-> SubSeq(dest_path, Len(at) + 1, Len(dest_path))])
            ELSE /\ log[i].out.emit = Some(EmitMoveNode(src_path, dest_path))
                 /\ log[i].out.engine = None
                 /\ src_path = ReqSrc /\ dest_path = ReqDest

\* A request forwarded by a node below the root and delegated with shortened
\* paths by its parent, which is below the root too.
C2_Witness ==
    /\ IsMoveReq
    /\ Len(log) >= 2
    /\ Forwards(1)
    /\ Delegates(2)
    /\ Len(log[2].at) = 1
    /\ Len(Unwrap(log[2].out.engine).dest_path) = Len(ReqDest) - 1

\* C3: when a move request goes first to a node whose path is a strict prefix
\* of dest_path, every node that gets it has a path strictly shorter than
\* dest_path: the debug assertion holds, dest_path[..prefix_len] is in range
\* and no handler panics.
C3_DestDeeperThanReceiver ==
    (IsMoveReq /\ IsStrictPrefix(req.at, ReqDest)) =>
        /\ MovePending =>
              Len(Unwrap(pending).at) < Len(Unwrap(pending).msg.dest_path)
        /\ \A i \in MoveCalls :
              /\ Len(log[i].at) < Len(log[i].msg.dest_path)
              /\ ~log[i].out.panic
        /\ ~panicked

\* A forwarded request on its way to the parent of the node that forwarded it.
C3_Witness ==
    /\ IsMoveReq
    /\ MovePending
    /\ Len(log) >= 1
    /\ Forwards(1)

\* The buildings of a tree and the names of its groups, in preorder.
RECURSIVE Leaves(_)
Leaves(node) ==
    IF IsGroup(node)
    THEN LET RECURSIVE Cat(_)
             Cat(i) == IF i > Len(node.children) THEN <<>>
                       ELSE Leaves(node.children[i]) \o Cat(i + 1)
         IN  Cat(1)
    ELSE <<node>>

RECURSIVE GroupNames(_)
GroupNames(node) ==
    IF IsGroup(node)
    THEN LET RECURSIVE Cat(_)
             Cat(i) == IF i > Len(node.children) THEN <<>>
                       ELSE GroupNames(node.children[i]) \o Cat(i + 1)
         IN  <<node.name>> \o Cat(1)
    ELSE <<>>

Count(s, x) == Cardinality({i \in DOMAIN s : s[i] = x})

\* s and t hold the same elements, each as often.
SameBag(s, t) ==
    /\ Len(s) = Len(t)
    /\ \A i \in DOMAIN s : Count(s, s[i]) = Count(t, s[i])

SameNodes(a, b) ==
    /\ SameBag(Leaves(a), Leaves(b))
    /\ SameBag(GroupNames(a), GroupNames(b))

\* C4: a move neither drops nor duplicates a node: in every state of a move
\* request the tree holds the same buildings and the same group names, each as
\* often, as the tree the request was made on, and so does every replacement
\* a node emits for itself.
C4_MoveConservation ==
    IsMoveReq =>
        /\ SameNodes(tree, pre)
        /\ \A i \in DOMAIN log :
              EmitsReplace(i) =>
                  SameNodes(Unwrap(log[i].out.emit).node, NodeAt(pre, log[i].at))

\* A move made by a group below the root, whose replacement its parent has
\* installed: the tree has changed.
C4_Witness ==
    /\ IsMoveReq
    /\ Settled
    /\ tree # pre
    /\ \E i \in MoveCalls : EmitsReplace(i) /\ log[i].at # <<>>

\* C5: a move whose destination is the moved node's position or lies inside
\* the moved subtree (src_path is a prefix of dest_path) is a no-op: no node
\* emits a replacement and the tree stays as it is.
C5_MoveIntoSelfRejected ==
    (IsMoveReq /\ IsPrefix(ReqSrc, ReqDest)) =>
        /\ tree = pre
        /\ \A i \in DOMAIN log : ~EmitsReplace(i)

\* A group was dropped on a position inside itself, and the Move Engine was
\* asked.
C5_Witness ==
    /\ IsMoveReq
    /\ IsStrictPrefix(ReqSrc, ReqDest)
    /\ IsNodePath(pre, ReqSrc)
    /\ Settled
    /\ \E i \in MoveCalls : Delegates(i)

\* What tells a node from the others: the name of a group, a building as it is.
Label(node) == IF IsGroup(node) THEN [kind |-> "Group", name |-> node.name] ELSE node

Labels(nodes) == [i \in DOMAIN nodes |-> Label(nodes[i])]

\* The sequence s without the elements equal to x
RECURSIVE Without(_, _)
Without(s, x) ==
    IF s = <<>> THEN <<>>
    ELSE IF Head(s) = x THEN Without(Tail(s), x)
    ELSE <<Head(s)>> \o Without(Tail(s), x)

\* node is the group that was at path p before the move: it has its name.
\* moved is its child number j, and its other children are in the order they
\* had, those that were before position d before moved and the others after it.
HoldsAt(node, old, moved, d, j) ==
    /\ IsGroup(node)
    /\ node.name = old.name
    /\ node.children[j] = moved
    /\ Labels(SubSeq(node.children, 1, j - 1)) =
          Without(Labels(SubSeq(old.children, 1, d)), Label(moved))
    /\ Labels(SubSeq(node.children, j + 1, Len(node.children))) =
          Without(Labels(SubSeq(old.children, d + 1, Len(old.children))), Label(moved))

C7_MoveToOwnPositionIsNoOp ==
    (IsMoveReq /\ ReqSrc = ReqDest /\ IsNodePath(pre, ReqSrc)) =>
        /\ tree = pre
        /\ \A i \in DOMAIN log : ~EmitsReplace(i)

\* A group with a child, itself the child of a group below the root, was
\* dropped on its own position, and the Move Engine was asked.
C7_Witness ==
    /\ IsMoveReq
    /\ ReqSrc = ReqDest
    /\ Len(ReqSrc) = 2
    /\ IsNodePath(pre, ReqSrc)
    /\ NumChildren(NodeAt(pre, ReqSrc)) > 0
    /\ Settled
    /\ Delegates(1)

(***************************************************************************)
(* Properties of the identity edits of a building (SpecBuild).             *)
(***************************************************************************)
IsKnown(building) == IsSome(building) /\ IsSome(db_get(Unwrap(building)))

\* The kind the Database gives for a building id it knows
KindOf(building) == Unwrap(db_get(Unwrap(building))).kind

\* The settings of a building are of the kind of its identity, when the
\* Database knows the identity.  BuildingSettings has no variant without a
\* kind, so there is nothing to ask of a building whose identity is unset or
\* unknown.
ShapeMatches(node) ==
    IsKnown(node.building) => node.settings.kind = KindOf(node.building).kind_id

\* The calls of update for a ChangeType message that emitted a replacement
AcceptedChangeTypes ==
    {i \in DOMAIN log : log[i].msg.type = "ChangeType" /\ EmitsReplace(i)}

C9_SelectorsValidAfterChangeType ==
    \A i \in AcceptedChangeTypes :
        LET new == Unwrap(log[i].out.emit).node
        IN  IsKnown(new.building) =>
                \/ Selector(new.settings) = None
                \/ Unwrap(Selector(new.settings)) \in Allowed(KindOf(new.building))

\* C10: an accepted ChangeType to a building whose kind differs from the kind
\* of the old settings gives settings of the new kind with the old clock speed
\* and no recipe, resource or fuel.
C10_ClockSpeedPreserved ==
    \A i \in AcceptedChangeTypes :
        LET old == NodeAt(pre, log[i].at)
            new == Unwrap(log[i].out.emit).node
        IN  (IsKnown(new.building) /\ KindOf(new.building).kind_id # old.settings.kind)
                => /\ new.building = Some(log[i].msg.id)
                   /\ new.settings.kind = KindOf(new.building).kind_id
                   /\ new.settings.clock_speed = old.settings.clock_speed
                   /\ Selector(new.settings) = None

\* A manufacturer with a recipe and a clock speed of 50 was made a miner.
C10_Witness ==
    /\ AcceptedChangeTypes # {}
    /\ NodeAt(pre, <<0>>).settings.kind = "Manufacturer"
    /\ IsSome(NodeAt(pre, <<0>>).settings.recipe)
    /\ NodeAt(pre, <<0>>).settings.clock_speed = 50
    /\ req.msg.id = "MinerMk1"
    /\ Settled
    /\ NodeAt(tree, <<0>>).settings = MinerSettings(None, 50)

\* The calls of update for a message of the given type that went to a building
CallsOnBuilding(type) ==
    {i \in DOMAIN log :
        log[i].msg.type = type /\ ~IsGroup(NodeAt(pre, log[i].at))}

\* C11: a ChangeType message to a building whose identity is already the new
\* id emits nothing.  To a building with another identity (or none) it emits
\* no move request, and the replacement it emits, if build_node succeeds, has
\* the new id as its identity; when the Database does not know the new id, the
\* replacement has the settings the building had.
C11_ChangeTypeSetsIdentity ==
    \A i \in CallsOnBuilding("ChangeType") :
        LET old == NodeAt(pre, log[i].at)
            id == log[i].msg.id
        IN  /\ old.building = Some(id) => log[i].out.emit = None
            /\ ~Forwards(i)
            /\ EmitsReplace(i) =>
                  LET new == Unwrap(log[i].out.emit).node
                  IN  /\ new.kind = "Building"
                      /\ new.building = Some(id)
                      /\ ~IsSome(db_get(id)) => new.settings = old.settings

\* A miner with a resource was given an identity that the Database does not
\* know, and the tree holds it with that identity and its old settings.
C11_Witness ==
    /\ req.msg.type = "ChangeType"
    /\ req.msg.id = "Unlisted"
    /\ Settled
    /\ NodeAt(pre, <<0>>).building = Some("MinerMk1")
    /\ IsSome(NodeAt(pre, <<0>>).settings.resource)
    /\ NodeAt(tree, <<0>>).building = Some("Unlisted")
    /\ NodeAt(tree, <<0>>).settings = NodeAt(pre, <<0>>).settings

(***************************************************************************)
(* Properties of the recipe and item edits of a building (SpecSelect).     *)
(***************************************************************************)
\* node is a building that offers the recipe
OffersRecipe(node, id) ==
    /\ node.kind = "Building"
    /\ IsKnown(node.building)
    /\ KindOf(node.building).kind_id = "Manufacturer"
    /\ id \in KindOf(node.building).available_recipes

\* node is a building that takes the item as its resource or as its fuel
TakesItem(node, id) ==
    /\ node.kind = "Building"
    /\ IsKnown(node.building)
    /\ \/ /\ KindOf(node.building).kind_id \in {"Miner", "Pump"}
          /\ id \in KindOf(node.building).allowed_resources
       \/ /\ KindOf(node.building).kind_id = "Generator"
          /\ id \in KindOf(node.building).allowed_fuel

\* C12: a ChangeRecipe message makes its receiver emit a replacement only if
\* the receiver is a building with an identity that the Database resolves to
\* a manufacturer offering the recipe; a ChangeItem message only if it is a
\* building whose identity resolves to a miner or pump allowing the item as
\* resource, or to a generator allowing it as fuel.  Otherwise the receiver
\* emits nothing, no other message follows and the tree stays as it is.
C12_SelectionRejection ==
    \A i \in DOMAIN log :
        LET node == NodeAt(pre, log[i].at)
            id == log[i].msg.id
            valid == IF log[i].msg.type = "ChangeRecipe"
                     THEN OffersRecipe(node, id)
                     ELSE TakesItem(node, id)
        IN  log[i].msg.type \in {"ChangeRecipe", "ChangeItem"} =>
                /\ EmitsReplace(i) => valid
                /\ ~Forwards(i)
                /\ ~valid => /\ log[i].out.emit = None
                             /\ ~log[i].out.panic
                             /\ Len(log) = i
                             /\ pending = None
                             /\ tree = pre

\* A Constructor, which offers r1 and r2, was asked for r3: nothing was
\* emitted and the tree is the one before.
C12_Witness ==
    /\ req.msg = MsgChangeRecipe("r3")
    /\ req.at = <<0>>
    /\ NodeAt(pre, <<0>>).building = Some("Constructor")
    /\ NodeAt(pre, <<0>>).settings.kind = "Manufacturer"
    /\ Settled
    /\ log[1].out.emit = None
    /\ tree = pre

\* The calls of update for a message of the given type that emitted a
\* replacement
Accepted(type) == {i \in DOMAIN log : log[i].msg.type = type /\ EmitsReplace(i)}

\* C13: the replacement that a building emits for a ChangeItem message has the
\* identity the building had and settings of the kind of that identity (Miner,
\* Generator or Pump) whose resource or fuel is the item of the message and
\* whose clock speed is the one the building had, whether the old settings
\* were of that kind or of another one.
C13_AcceptedChangeItem ==
    \A i \in Accepted("ChangeItem") :
        LET old == NodeAt(pre, log[i].at)
            new == Unwrap(log[i].out.emit).node
        IN  /\ new.kind = "Building"
            /\ new.building = old.building
            /\ IsKnown(old.building)
            /\ new.settings.kind = KindOf(old.building).kind_id
            /\ new.settings.kind \in {"Miner", "Generator", "Pump"}
            /\ Selector(new.settings) = Some(log[i].msg.id)
            /\ new.settings.clock_speed = old.settings.clock_speed
            /\ DOMAIN new.settings = DOMAIN DefaultSettings(new.settings.kind, 100)

\* A MinerMk1 with Manufacturer settings, a recipe and clock speed 50 was
\* given the resource i1, and the tree holds it with Miner settings, that
\* resource and clock speed 50.
C13_Witness ==
    /\ req.msg = MsgChangeItem("i1")
    /\ NodeAt(pre, <<0>>) =
          Building(Some("MinerMk1"), ManufacturerSettings(Some("r1"), 50))
    /\ Settled
    /\ NodeAt(tree, <<0>>) = Building(Some("MinerMk1"), MinerSettings(Some("i1"), 50))

\* C14: the replacement that a building emits for a ChangeRecipe message has
\* the identity the building had and Manufacturer settings with the recipe of
\* the message and the clock speed the building had: the old settings with
\* only the recipe replaced when they were Manufacturer settings, and the
\* default Manufacturer settings with that recipe and clock speed when they
\* were not.
C14_AcceptedChangeRecipe ==
    \A i \in Accepted("ChangeRecipe") :
        LET old == NodeAt(pre, log[i].at)
            new == Unwrap(log[i].out.emit).node
            id == log[i].msg.id
        IN  /\ new.kind = "Building"
            /\ new.building = old.building
            /\ new.settings.kind = "Manufacturer"
            /\ new.settings.recipe = Some(id)
            /\ new.settings.clock_speed = old.settings.clock_speed
            /\ IF old.settings.kind = "Manufacturer"
               THEN \A f \in DOMAIN old.settings \ {"recipe"} :
                        new.settings[f] = old.settings[f]
               ELSE new.settings =
                        [DefaultSettings("Manufacturer", old.settings.clock_speed)
                            EXCEPT !.recipe = Some(id)]

\* An Assembler with Generator settings, a fuel and clock speed 50 was given
\* the recipe r3, and the tree holds it with Manufacturer settings, that
\* recipe and clock speed 50.
C14_Witness ==
    /\ req.msg = MsgChangeRecipe("r3")
    /\ NodeAt(pre, <<0>>) =
          Building(Some("Assembler"), GeneratorSettings(Some("i3"), 50))
    /\ Settled
    /\ NodeAt(tree, <<0>>) =
          Building(Some("Assembler"), ManufacturerSettings(Some("r3"), 50))

(***************************************************************************)
(* Properties of one edit (SpecEdit).                                      *)
(***************************************************************************)
\* The calls of update for a message of the given type that went to a group
CallsOnGroup(type) ==
    {i \in DOMAIN log :
        log[i].msg.type = type /\ IsGroup(NodeAt(pre, log[i].at))}

\* The child of a group at the 0-based position j
Child(group, j) == group.children[j + 1]

\* C15: a CopyChild message with index i to a group of n > i children makes
\* the group emit a replacement of itself, with its own index: a group of the
\* same name with n + 1 children, of which those at the positions 0..i are the
\* ones that were there, the one at i + 1 is equal to the one at i, and the
\* one at j + 1 is the one that was at j for every j > i.  So [A, B, C] copied
\* at 1 is [A, B, B, C].
C15_CopyChild ==
    \A k \in CallsOnGroup("CopyChild") :
        LET group == NodeAt(pre, log[k].at)
            n == Len(group.children)
            i == log[k].msg.idx
        IN  i < n =>
              /\ EmitsReplace(k)
              /\ Unwrap(log[k].out.emit).idx = our_idx(log[k].at)
              /\ LET new == Unwrap(log[k].out.emit).node
                 IN  /\ IsGroup(new)
                     /\ new.name = group.name
                     /\ Len(new.children) = n + 1
                     /\ \A j \in 0..i : Child(new, j) = Child(group, j)
                     /\ Child(new, i + 1) = Child(group, i)
                     /\ \A j \in (i + 1)..(n - 1) : Child(new, j + 1) = Child(group, j)
                     /\ (n = 3 /\ i = 1) =>
                            new.children = <<Child(group, 0), Child(group, 1),
                                             Child(group, 1), Child(group, 2)>>

\* The second of the three children of the root was copied, and the root of
\* the tree has four children.
C15_Witness ==
    /\ req.msg = MsgCopyChild(1)
    /\ req.at = <<>>
    /\ Len(pre.children) = 3
    /\ Settled
    /\ Len(tree.children) = 4
    /\ Child(tree, 2) = Child(pre, 1)
    /\ Child(tree, 3) = Child(pre, 2)

\* The call number k of update is for an edit that is to be rejected: a child
\* edit with an index past the last child of a group, a group edit of a
\* building, or a building edit of a group.
ToBeRejected(k) ==
    LET node == NodeAt(pre, log[k].at)
        type == log[k].msg.type
    IN  \/ /\ type \in {"ReplaceChild", "DeleteChild", "CopyChild"}
           /\ IsGroup(node)
           /\ log[k].msg.idx >= Len(node.children)
        \/ /\ type \in {"Rename", "AddChild", "DeleteChild", "CopyChild", "ReplaceChild"}
           /\ node.kind = "Building"
        \/ /\ type \in {"ChangeType", "ChangeRecipe", "ChangeItem"}
           /\ IsGroup(node)

\* C16: an edit that is to be rejected makes its receiver emit neither a
\* replacement nor a move request and does not panic; no other message
\* follows it and the tree stays as it is.
C16_RejectedEditsLeaveTree ==
    \A k \in DOMAIN log :
        ToBeRejected(k) =>
            /\ log[k].out.emit = None
            /\ ~log[k].out.panic
            /\ ~panicked
            /\ Len(log) = k
            /\ pending = None
            /\ tree = pre

\* A group below the root with a child was asked to copy the child at the
\* index past its last child; nothing was emitted and the tree is the one
\* before.
C16_Witness ==
    /\ req.msg.type = "CopyChild"
    /\ req.at # <<>>
    /\ IsGroup(NodeAt(pre, req.at))
    /\ Len(NodeAt(pre, req.at).children) > 0
    /\ req.msg.idx = Len(NodeAt(pre, req.at).children)
    /\ Settled
    /\ log[1].out.emit = None
    /\ tree = pre

\* t is s without the whitespace at its start and at its end: s is t between
\* two runs of whitespace, and t neither starts nor ends with whitespace.
IsTrimOf(t, s) ==
    \E a \in 0..Len(s), b \in 0..Len(s) :
        /\ a + b <= Len(s)
        /\ t = SubSeq(s, a + 1, Len(s) - b)
        /\ \A j \in 1..a : IsWhitespace(s[j])
        /\ \A j \in (Len(s) - b + 1)..Len(s) : IsWhitespace(s[j])
        /\ t # <<>> => ~IsWhitespace(t[1]) /\ ~IsWhitespace(t[Len(t)])

\* The parts of s
Substrings(s) == {SubSeq(s, a, b) : a \in 1..(Len(s) + 1), b \in 0..Len(s)}

\* C17: a Rename message to a group makes it emit a replacement if and only
\* if the name of the message, without the whitespace at its start and end,
\* differs from the name of the group.  The replacement is emitted with the
\* group's own index and is the group with that shortened name and with the
\* children it had, in their order.
C17_RenameTrims ==
    \A k \in CallsOnGroup("Rename") :
        LET group == NodeAt(pre, log[k].at)
            name == log[k].msg.name
        IN  \E t \in Substrings(name) :
              /\ IsTrimOf(t, name)
              /\ ~Forwards(k)
              /\ EmitsReplace(k) <=> t # group.name
              /\ EmitsReplace(k) =>
                    /\ Unwrap(log[k].out.emit).idx = our_idx(log[k].at)
                    /\ Unwrap(log[k].out.emit).node = Group(t, group.children)

\* A group below the root with a child was renamed to "a b" typed with
\* whitespace around it, and the tree holds it with the name "a b" and its
\* child.
C17_Witness ==
    /\ req.msg = MsgRename(<<"\t", " ", "a", " ", "b", " ">>)
    /\ req.at # <<>>
    /\ Settled
    /\ tree # pre
    /\ NodeAt(tree, req.at).name = <<"a", " ", "b">>
    /\ NodeAt(tree, req.at).children = NodeAt(pre, req.at).children
    /\ NodeAt(pre, req.at).children # <<>>

\* The calls of update that emitted a replacement
Emitters == {k \in DOMAIN log : EmitsReplace(k)}

\* The first of them: the call that accepted the edit
FirstEmitter == CHOOSE k \in Emitters : \A j \in Emitters : k <= j

\* The message that the parent of the node at path at gets when the node
\* emits the replacement node with the index idx
ReplaceChildFor(at, idx, node) == [at |-> Front(at), msg |-> MsgReplaceChild(idx, node)]

\* C18: every node that emits a replacement emits it with the last index of
\* its own path, and its parent gets a ReplaceChild message with that index
\* and that replacement and emits a replacement of itself in turn.  When the
\* root has emitted, the tree holds the replacement of the node that accepted
\* the edit at the path p of that node, every group above p has the name and
\* the number of children it had, and all its children but the one on p are
\* the ones it had.
C18_ReplacementPropagation ==
    /\ \A k \in Emitters :
          LET at == log[k].at
              emit == Unwrap(log[k].out.emit)
          IN  /\ emit.idx = our_idx(at)
              /\ at # <<>> =>
                    /\ emit.idx = at[Len(at)]
                    /\ IF k = Len(log)
                       THEN pending = Some(ReplaceChildFor(at, emit.idx, emit.node))
                       ELSE /\ log[k + 1].at = Front(at)
                            /\ log[k + 1].msg = MsgReplaceChild(emit.idx, emit.node)
                            /\ EmitsReplace(k + 1)
    /\ (Settled /\ Emitters # {}) =>
          LET p == log[FirstEmitter].at
              replacement == Unwrap(log[FirstEmitter].out.emit).node
          IN  /\ IsNodePath(tree, p)
              /\ NodeAt(tree, p) = replacement
              /\ \A n \in 0..(Len(p) - 1) :
                    LET old == NodeAt(pre, SubSeq(p, 1, n))
                        new == NodeAt(tree, SubSeq(p, 1, n))
                    IN  /\ IsGroup(new)
                        /\ new.name = old.name
                        /\ Len(new.children) = Len(old.children)
                        /\ \A j \in 0..(Len(old.children) - 1) :
                              j # p[n + 1] => Child(new, j) = Child(old, j)

\* The second child of the first child of the root accepted an edit, its
\* parent and the root replaced their child in turn, and the tree has changed.
C18_Witness ==
    /\ Settled
    /\ Len(log) = 3
    /\ log[1].at = <<0, 1>>
    /\ EmitsReplace(1)
    /\ log[2].msg.type = "ReplaceChild"
    /\ log[3].at = <<>>
    /\ tree # pre
    /\ NodeAt(tree, <<0, 1>>) = Unwrap(log[1].out.emit).node
    /\ NodeAt(tree, <<0, 0>>) = NodeAt(pre, <<0, 0>>)

\* The tree rooted at root with the node at path p replaced by node
RECURSIVE WithNodeAt(_, _, _)
WithNodeAt(root, p, node) ==
    IF p = <<>> THEN node
    ELSE [root EXCEPT !.children[p[1] + 1] = WithNodeAt(@, Tail(p), node)]

\* The tree after the edit that was accepted: the tree before it with the
\* replacement of the node that accepted it in the place of that node
PostEditTree ==
    WithNodeAt(pre, log[FirstEmitter].at, Unwrap(log[FirstEmitter].out.emit).node)

\* C19: from the request of an edit on, the tree is in every state the tree
\* before the edit or the tree after it.  It is the tree before the edit as
\* long as a message of the edit is on its way and whenever no node has
\* emitted a replacement, so an edit that is rejected never changes it; and
\* it is the tree after the edit once the edit was accepted and no message is
\* on its way any more.
C19_EditAtomicity ==
    req # NoRequest =>
        /\ ~panicked
        /\ \/ tree = pre
           \/ Emitters # {} /\ tree = PostEditTree
        /\ IsSome(pending) => tree = pre
        /\ Emitters = {} => tree = pre
        /\ (Emitters # {} /\ pending = None) =>
              /\ tree = PostEditTree
              /\ log[Len(log)].at = <<>>
              /\ EmitsReplace(Len(log))

\* A node two below the root has emitted a replacement of itself that differs
\* from it, its parent has emitted its own, the message for the root is on
\* its way, and the tree is still the one before the edit.
C19_Witness ==
    /\ IsSome(pending)
    /\ Unwrap(pending).at = <<>>
    /\ Len(log) = 2
    /\ Len(log[1].at) = 2
    /\ EmitsReplace(1)
    /\ EmitsReplace(2)
    /\ Unwrap(log[1].out.emit).node # NodeAt(pre, log[1].at)
    /\ tree = pre

\* C20: a DeleteChild message with index i to a group of n > i children makes
\* the group emit a replacement of itself, with its own index: a group of the
\* same name with n - 1 children, of which those at the positions before i are
\* the ones that were there and the one at j - 1 is the one that was at j for
\* every j > i.
C20_DeleteChild ==
    \A k \in CallsOnGroup("DeleteChild") :
        LET group == NodeAt(pre, log[k].at)
            n == Len(group.children)
            i == log[k].msg.idx
        IN  i < n =>
              /\ EmitsReplace(k)
              /\ Unwrap(log[k].out.emit).idx = our_idx(log[k].at)
              /\ LET new == Unwrap(log[k].out.emit).node
                 IN  /\ IsGroup(new)
                     /\ new.name = group.name
                     /\ Len(new.children) = n - 1
                     /\ \A j \in 0..(i - 1) : Child(new, j) = Child(group, j)
                     /\ \A j \in (i + 1)..(n - 1) : Child(new, j - 1) = Child(group, j)

\* The second of the three children of the root was deleted, and the root of
\* the tree has the first and the third of them.
C20_Witness ==
    /\ req.msg = MsgDeleteChild(1)
    /\ req.at = <<>>
    /\ Len(pre.children) = 3
    /\ Settled
    /\ tree.children = <<Child(pre, 0), Child(pre, 2)>>

\* C21: an AddChild message to a group of n children always makes the group
\* emit a replacement of itself, with its own index: a group of the same name
\* with n + 1 children, of which the first n are the ones that were there, in
\* their order, and the last one is the child of the message.
C21_AddChild ==
    \A k \in CallsOnGroup("AddChild") :
        LET group == NodeAt(pre, log[k].at)
            n == Len(group.children)
        IN  /\ EmitsReplace(k)
            /\ Unwrap(log[k].out.emit).idx = our_idx(log[k].at)
            /\ LET new == Unwrap(log[k].out.emit).node
               IN  /\ IsGroup(new)
                   /\ new.name = group.name
                   /\ Len(new.children) = n + 1
                   /\ \A j \in 0..(n - 1) : Child(new, j) = Child(group, j)
                   /\ Child(new, n) = log[k].msg.child

\* A group below the root with two children was given a third one, and the
\* tree holds it with its two children and then the new one.
C21_Witness ==
    /\ req.msg.type = "AddChild"
    /\ req.at # <<>>
    /\ IsGroup(NodeAt(pre, req.at))
    /\ Len(NodeAt(pre, req.at).children) = 2
    /\ Settled
    /\ NodeAt(tree, req.at).children =
          NodeAt(pre, req.at).children \o <<req.msg.child>>

(***************************************************************************)
(* Properties of the callbacks and of the drop indicator (SpecDrag).       *)
(***************************************************************************)
\* C22: a call of update, for a message of any type to a group or building
\* with or without a drop indicator, emits at most one callback to the
\* parent: nothing, one replacement or one move request, never both and never
\* two of a kind; for a DragOver or DragLeave message it emits nothing.  So at
\* most one message is on its way at a time.
C22_AtMostOneCallback ==
    \A k \in DOMAIN log :
        LET emitted == log[k].out.emit
        IN  /\ Len(emitted) <= 1
            /\ \A j \in DOMAIN emitted : emitted[j].callback \in {"replace", "move_node"}
            /\ log[k].msg.type \in {"DragOver", "DragLeave"} => emitted = <<>>
            /\ k < Len(log) =>
                  /\ Len(emitted) = 1
                  /\ log[k + 1].at = Front(log[k].at)
                  /\ log[k + 1].msg = ParentMsg(emitted[1])

\* A group that showed a drop indicator got a MoveNode message and emitted
\* one move request, and the root, which got it, emitted one replacement.
C22_Witness ==
    /\ Len(log) = 2
    /\ IsSome(log[1].insert_pos)
    /\ log[1].msg.type = "MoveNode"
    /\ log[1].out.emit = <<EmitMoveNode(ReqSrc, ReqDest)>>
    /\ Len(log[2].out.emit) = 1
    /\ log[2].out.emit[1].callback = "replace"
    /\ Settled
    /\ tree # pre

\* C23: a DragOver message sets insert_pos of its receiver to the position of
\* the message and a DragLeave message sets it to None, and both ask for a
\* render.  A MoveNode message, whether its receiver hands it to the Move
\* Engine, forwards it or does nothing with it, sets insert_pos of the
\* receiver to None and asks for a render exactly when insert_pos was set
\* before.  A message of any other type leaves insert_pos of its receiver as
\* it was.  In each case the component holds that value after the call.
C23_DropIndicator ==
    /\ \A k \in DOMAIN log :
          LET type == log[k].msg.type
              before == log[k].insert_pos
              out == log[k].out
          IN  /\ ~out.panic
              /\ CASE type = "DragOver" ->
                        out.insert_pos = Some(log[k].msg.insert_pos) /\ out.render
                   [] type = "DragLeave" ->
                        out.insert_pos = None /\ out.render
                   [] type = "MoveNode" ->
                        out.insert_pos = None /\ (out.render <=> before # None)
                   [] OTHER ->
                        out.insert_pos = before
    /\ log # <<>> =>
          InsertPosOf(log[Len(log)].at) = log[Len(log)].out.insert_pos

\* A group below the root that showed a drop indicator got a MoveNode message
\* and forwarded it: it asked for a render and shows no indicator any more.
\* The root, which showed none, made the move and asked for no render.
C23_Witness ==
    /\ Len(log) = 2
    /\ log[1].msg.type = "MoveNode"
    /\ IsSome(log[1].insert_pos)
    /\ Forwards(1)
    /\ log[1].out.render
    /\ InsertPosOf(log[1].at) = None
    /\ log[2].insert_pos = None
    /\ EmitsReplace(2)
    /\ ~log[2].out.render
    /\ insert_pos = <<>>

====
